---- MODULE Spec2Model ----
(***************************************************************************)
(* A model of the docker runner of automlbenchmark                         *)
(* (src/amlb/runners/docker.py): DockerBenchmark._start_container with its *)
(* interrupt handler, and the image check / pull / build of                *)
(* DockerBenchmark._image_exists and _run_container_build_command.         *)
(* The docker daemon and the file system are the environment: their        *)
(* answers are nondeterministic choices.                                   *)
(***************************************************************************)
EXTENDS Integers, Sequences, FiniteSets, TLC

\* ------------------------------------------------------------------ bounds
NumRuns == 2      \* concurrent _start_container invocations on one host
NumSids == 2      \* distinct session ids (self.sid) in use on the host
MaxParam == 2     \* script_params values are 0..MaxParam

NumImages == 2    \* distinct image identities
MaxCalls == 2     \* successive ensure calls of one pair
MaxRows == 2      \* rows of the test set of an adapter's run
MaxFeatures == 12 \* columns of the training set when the candidates are picked
MaxTuned == 4     \* columns of the training set of an adapter's full run
MaxScore == 2     \* cross-validation scores are 1..MaxScore

Runs == 1..NumRuns
Images == 1..NumImages
Sids == 1..NumSids
Params == 0..MaxParam

\* ------------------------------------------------- instance names (line 53)
\* The digest is a fixed-length string over the base64 alphabet, of which
\* three characters stand here: a word character, "+" and "/".
DigestChars == <<"a", "+", "/">>

\* str_digest: a deterministic fixed-length fingerprint of the parameters.
Digest(p) ==
    LET n == Len(DigestChars)
    IN  <<DigestChars[(p % n) + 1], DigestChars[((p \div n) % n) + 1]>>

\* str_sanitize: every character that is not a word character becomes "_".
Sanitize(s) == [i \in 1..Len(s) |-> IF s[i] \in {"+", "/"} THEN "_" ELSE s[i]]

\* A plausible slip: the name leaves the parameters out.
InstNameNoParams(s, p) == <<s, Sanitize(Digest(0))>>

\* inst_name = f"{self.sid}.{str_sanitize(str_digest(script_params))}".
\* The sanitized digest holds no "." and has a fixed length, so the string is
\* split back into its two parts in one way only: the pair stands for it.
InstName(s, p) == <<s, Sanitize(Digest(p))>>

\* A plausible slip: the handler kills the name of the parameterless run.
KillNameNoParams(s, p) == InstName(s, 0)

\* The name the handler passes to `docker kill` (line 75).
KillName(s, p) == InstName(s, p)

\* --------------------------------------------------- directories (47-63)
Dir(root, sess) == [root |-> root, session |-> sess]
InDir == Dir("input_dir", 0)
OutDir == Dir("output_dir", 0)
CustomDir == Dir("user_dir", 0)
\* self.output_dirs.session: the session's directory under output_dir.
SessionDir(s) == Dir("output_dir", s)
AllDirs == {InDir, OutDir, CustomDir} \cup {SessionDir(s) : s \in Sids}

\* for d in [in_dir, out_dir, custom_dir]: touch(d, as_dir=True)
TouchedDirs == {InDir, OutDir, CustomDir}

\* -v {input}:/input -v {output}:/output -v {custom}:/custom, with
\* input=in_dir, output=self.output_dirs.session, custom=custom_dir.
MountDirs(s) == {InDir, SessionDir(s), CustomDir}

\* ---------------------------------------------- the command (lines 52-67)
\* script_params: the forwarded parameters, as the words of the string. The
\* words forwarded may be any, the flags of the fixed arguments included; the
\* default is the empty string.
ForwardedWords == <<"-i", "/data", "--session=x", "-t", "1">>
ParamTokens(p) ==
    [i \in 1..p |-> ForwardedWords[((i - 1) % Len(ForwardedWords)) + 1]]

\* "-i /input -o /output -u /custom -s skip -Xrun_mode=docker" (line 57)
FixedArgs ==
    <<"-i", "/input", "-o", "/output", "-u", "/custom", "-s", "skip",
      "-Xrun_mode=docker">>

\* script_extra_params = "--session=" (line 52)
ScriptExtraParams == <<"--session=">>

\* A plausible slip: the fixed arguments come before the forwarded ones.
ImageArgsFixedFirst(p) == FixedArgs \o ParamTokens(p) \o ScriptExtraParams

\* What follows the image: "{params} -i /input ... {extra_params}" (line 57).
ImageArgs(p) == ParamTokens(p) \o FixedArgs \o ScriptExtraParams

\* "-v {input}:/input -v {output}:/output -v {custom}:/custom" (line 56)
Mounts(s) ==
    <<<<InDir, "/input">>, <<SessionDir(s), "/output">>,
      <<CustomDir, "/custom">>>>

\* The command of lines 54-67: docker run --name {name} {options} {mounts}
\* --rm {image} and the arguments of the image.
RunCommand(s, img, p) ==
    [name |-> InstName(s, p), mounts |-> Mounts(s), rm |-> TRUE,
     image |-> img, args |-> ImageArgs(p)]

\* No command was issued.
NoCommand == [name |-> <<>>, mounts |-> <<>>, rm |-> FALSE, image |-> 0,
              args |-> <<>>]

\* ----------------------------------------------- the handler (lines 71-79)
\* A plausible slip: try/finally instead of try/except.
HandlerEnteredAlways(how) == TRUE

\* A plausible slip: `except Exception:`, which a KeyboardInterrupt passes.
HandlerEnteredExceptionOnly(how) == how = "RunError"

\* try: run_cmd(cmd) / except: -- the handler runs on every raised error,
\* KeyboardInterrupt included, and not on a normal return.
HandlerEntered(how) == how # "ok"

\* A plausible slip: the kill's own error is not caught.
HandlerOutcomeLeaky(orig, kr) ==
    CASE kr \in {"interrupted", "unissued"} -> "KeyboardInterrupt"
      [] kr = "fail" -> "KillError"
      [] OTHER -> orig

\* try: run_cmd(docker kill) / except Exception: pass / finally: raise.
\* A failed kill is swallowed and the bare raise re-raises the error of the
\* wait; a KeyboardInterrupt inside the handler (before the kill is spawned,
\* "unissued", or while it runs, "interrupted") is no Exception: it passes
\* the except clause and the bare raise in finally re-raises it.
HandlerOutcome(orig, kr) ==
    IF kr \in {"interrupted", "unissued"} THEN "KeyboardInterrupt" ELSE orig

\* ------------------------------------------- _image_exists (lines 81-92)
HexChars == {"0", "1", "2", "3", "4", "5", "6", "7", "8", "9",
             "a", "b", "c", "d", "e", "f"}

\* docker: what `docker images -q <image>` prints: the id of the image and a
\* line break, or nothing.
ImagesOutput(img, local) == IF img \in local THEN <<"3", "f", "\n">> ELSE <<>>

\* output.strip()
RECURSIVE Strip(_)
Strip(out) ==
    IF out = <<>> THEN out
    ELSE IF Head(out) \in {"\n", " "} THEN Strip(Tail(out))
    ELSE IF out[Len(out)] \in {"\n", " "} THEN Strip(SubSeq(out, 1, Len(out) - 1))
    ELSE out

\* A plausible slip: the pattern takes upper-case hexadecimal digits.
IdMatchesUpperCase(text) ==
    /\ text # <<>>
    /\ \A i \in 1..Len(text) : text[i] \in {"0", "1", "2", "3", "4", "5", "6",
                                           "7", "8", "9", "A", "B", "C", "D",
                                           "E", "F"}

\* re.match(r'^[0-9a-f]+$', text)
IdMatches(text) ==
    /\ text # <<>>
    /\ \A i \in 1..Len(text) : text[i] \in HexChars

\* A plausible slip: the pull is attempted whatever the local check found.
PullAttemptedAlways(matched) == TRUE

\* if re.match(...): return True -- the pull is reached only without a match.
PullAttempted(matched) == ~matched

\* _image_exists returns True after a match or a pull that did not raise,
\* and False after a pull that raised.
ExistsResult(matched, pulled) == matched \/ pulled = "ok"

\* A plausible slip: `docker images` sits inside the try of the pull.
ImageExistsRaisesNothing(call, e) == "none"

\* The error that leaves _image_exists when one of its two commands raised e:
\* `docker images` (line 83) stands outside the try and e leaves unchanged;
\* `docker pull` raises inside it and `except Exception` returns False.
ImageExistsRaises(call, e) == IF call = "pull" THEN "none" ELSE e

\* A plausible slip: the build's error is caught and logged.
BuildRaisesNothing(e) == "none"

\* The error that leaves _run_container_build_command when `docker build`
\* raised e: lines 94-103 hold no try, e leaves unchanged.
BuildRaises(e) == e

\* The error that leaves _upload_image when `docker login && docker push`
\* raised e: lines 105-108 hold no try, e leaves unchanged.
UploadRaises(e) == e

\* options="" if cache else "--no-cache" (line 97)
BuildOptions(c) == IF c THEN "" ELSE "--no-cache"

\* ensure (spec section 4.1): the build follows when the image exists
\* neither locally nor in the registry.
BuildNeeded(exists) == ~exists

\* ------------------------------------------- pair state (spec section 4.4)
\* After _start_container: a raised error aborts the pair; after a normal
\* return the pair is RUNNING until its result is read back.
PairStateAfter(out) == IF out = "ok" THEN "RUNNING" ELSE "ABORTED"
PairStateAfterEnsure(ok) == IF ok THEN "IMAGE_READY" ELSE "ABORTED"

\* A plausible slip: a fatal failure of one pair ends the session.
AbortedWithAll(r, p) == TRUE

\* The pairs that a fatal failure of pair p aborts: p and no other (partial
\* failure isolation).
AbortedWith(r, p) == r = p

\* A plausible slip: a process that exited with 0 completes the pair.
PairStateAfterCollectAny(artifact) == "COMPLETE"

\* RUNNING -> COMPLETE on a readable RunResult in the output mount, RUNNING ->
\* ABORTED on a missing or unreadable one.
PairStateAfterCollect(artifact) ==
    IF artifact = "valid" THEN "COMPLETE" ELSE "ABORTED"

\* A plausible slip: the run is started whatever the state of the pair.
MayStartAlways(state, ensure) == TRUE

\* IMAGE_READY -> RUNNING: the run is started for a pair whose ensure call
\* has ended with the image.
MayStart(state, ensure) == state = "IMAGE_READY" /\ ensure = "ready"

\* The classes of docker.py: DockerBenchmark (line 19) and its subclass
\* DockerBenchmarkAPI (line 177), which overrides _generate_script.
Kinds == {"DockerBenchmark", "DockerBenchmarkAPI"}

\* _generate_script: the Dockerfile of the class, lines 110-173 for
\* DockerBenchmark and 181 onwards for DockerBenchmarkAPI, told apart here
\* by the class whose template it is.
GenerateScript(k) == [template |-> k]

\* No Dockerfile, or one left by an earlier session.
NoScript == [template |-> "none"]

\* ------------------------------------------------------------------ state
VARIABLES
    pc,         \* run -> where the invocation of _start_container stands
    sid,        \* run -> self.sid of the benchmark object
    params,     \* run -> script_params
    name,       \* run -> inst_name
    cmd,        \* run -> the `docker run` command it issued
    waitEnd,    \* run -> how the wait on `docker run` ended
    outcome,    \* run -> what the caller of _start_container observes
    kills,      \* run -> number of `docker kill` commands issued
    killRes,    \* run -> how the `docker kill` ended
    stopFound,  \* run -> a container of that name was up when the kill ended
    mountsOk,   \* run -> the three bound directories existed at `docker run`
    pairState,  \* run -> state of the benchmark-framework pair
    containers, \* the live containers, as <<name, run that created it>>
    dirs        \* the directories that exist on the host

runVars == <<pc, sid, params, name, cmd, waitEnd, outcome, kills, killRes,
             stopFound, mountsOk, pairState, containers, dirs>>

VARIABLES
    ipc,         \* pair -> where its ensure call stands
    image,       \* pair -> self.image, the identity it ensures
    calls,       \* pair -> ensure calls begun so far
    localRes,    \* pair -> this call: what the local check found
    pullRes,     \* pair -> this call: how the pull ended
    existsRes,   \* pair -> this call: what _image_exists returned
    callBuilds,  \* pair -> this call: `docker build` invocations
    ensureErr,   \* pair -> this call: the error that left the image functions
    builds,      \* pair -> `docker build` invocations of all its calls
    prevEnd,     \* pair -> how its previous ensure call ended
    cache,       \* the cache argument of the build
    buildCmd,    \* pair -> options of its last `docker build`
    localImages, \* identities for which `docker images -q` finds an image
    kind,        \* pair -> the class of its benchmark object
    script,      \* the content of the Dockerfile at self._script
    builtFrom    \* pair -> the Dockerfile its last `docker build` read

imgVars == <<ipc, image, calls, localRes, pullRes, existsRes, callBuilds,
             ensureErr, builds, prevEnd, cache, buildCmd, localImages, kind,
             script, builtFrom>>

\* What the ensure call leaves alone: the run's state but the pair state.
launchVars == <<pc, sid, params, name, cmd, waitEnd, outcome, kills, killRes,
                stopFound, mountsOk, containers, dirs>>

VARIABLES
    result,      \* pair -> the result artifact in its output mount
    expired,     \* pair -> the configured maximum runtime of its run is over
    pushRes,     \* pair -> how the `docker push` of its image ended
    collected    \* pair -> what the orchestrator read back after the run

pairVars == <<result, expired, pushRes, collected>>

VARIABLES
    adapter,          \* the framework whose exec.py runs
    taskType,         \* config.task_type
    classification,   \* config.type == 'classification'
    modelFile,        \* what lies at config.model_path
    rows,             \* number of rows of the test set
    saveRes,          \* how the saving of the model ended
    apc,              \* where run(dataset, config) stands
    ops,              \* the operations run has performed, in order
    trainingDuration, \* the local training_duration
    modelPath,        \* the local model_path
    predictions,      \* number of predictions made
    probabilities,    \* the local probabilities
    res,              \* the result run has emitted
    err,              \* the error that left run
    metric,            \* config.metric
    nFeatures,         \* X_train.shape[1]
    maxFeaturesValues, \* the local max_features_values
    listsBound,        \* max_feature_scores and tuning_durations are assigned
    maxFeatureScores,  \* the local max_feature_scores, as <<score, value>>
    tuningDurations,   \* the local tuning_durations, by the value timed
    bestValue          \* the local best_max_features_value, once assigned

tuneVars == <<maxFeaturesValues, listsBound, maxFeatureScores, tuningDurations,
              bestValue>>

adapterVars == <<adapter, taskType, classification, modelFile, rows, saveRes,
                 apc, ops,
                 trainingDuration, modelPath, predictions, probabilities, res,
                 err, metric, nFeatures, tuneVars>>

\* What the actions of the docker runner leave alone.
restVars == <<pairVars, adapterVars>>

vars == <<runVars, imgVars, pairVars, adapterVars>>

NameUp(n) == \E c \in containers : c[1] = n
OwnUp(r) == <<name[r], r>> \in containers
Named(n) == {c \in containers : c[1] = n}

\* The file system states the host can be in: a session directory lies under
\* output_dir.
DirStates ==
    {D \in SUBSET AllDirs : \A s \in Sids : SessionDir(s) \in D => OutDir \in D}

\* Session ids are interchangeable: one assignment stands for all that differ
\* by a renaming of the ids (run r uses no id above the ones in use plus one).
SidAssignments ==
    {f \in [Runs -> Sids] :
        \A r \in Runs : \A s \in Sids :
            (f[r] = s /\ s > 1) => \E q \in 1..(r - 1) : f[q] >= s - 1}

\* No result was written, no runtime is over, nothing was pushed or read.
InitPairVars ==
    /\ result = [r \in Runs |-> "none"]
    /\ expired = [r \in Runs |-> FALSE]
    /\ pushRes = [r \in Runs |-> "none"]
    /\ collected = [r \in Runs |-> "none"]

\* The result of an adapter that has emitted none.
NoResult == [predictions |-> 0, probabilities |-> "unset",
             training_duration |-> "unset", model_path |-> "unset"]

\* The locals of an adapter's run before its first statement.
AdapterLocals ==
    /\ ops = <<>>
    /\ saveRes = "none"
    /\ trainingDuration = "unset"
    /\ modelPath = "unset"
    /\ predictions = 0
    /\ probabilities = "unset"
    /\ res = NoResult
    /\ err = "none"
    /\ maxFeaturesValues = <<>>
    /\ listsBound = FALSE
    /\ maxFeatureScores = <<>>
    /\ tuningDurations = <<>>
    /\ bestValue = <<>>

\* The host side is modelled without the inside of the container.
AdapterOff ==
    /\ adapter = "none"
    /\ taskType = "none"
    /\ classification = FALSE
    /\ modelFile = "none"
    /\ rows = 0
    /\ metric = "none"
    /\ nFeatures = 0
    /\ apc = "off"
    /\ AdapterLocals

\* No run was started.
InitHost ==
    /\ InitPairVars
    /\ params = [r \in Runs |-> 0]
    /\ name = [r \in Runs |-> <<>>]
    /\ cmd = [r \in Runs |-> NoCommand]
    /\ waitEnd = [r \in Runs |-> "pending"]
    /\ outcome = [r \in Runs |-> "none"]
    /\ kills = [r \in Runs |-> 0]
    /\ killRes = [r \in Runs |-> "none"]
    /\ stopFound = [r \in Runs |-> "none"]
    /\ mountsOk = [r \in Runs |-> FALSE]
    /\ containers = {}

InitCommon == InitHost /\ AdapterOff

\* No ensure call is in progress or was made, and no Dockerfile was written.
InitCalls ==
    /\ ipc = [r \in Runs |-> "idle"]
    /\ calls = [r \in Runs |-> 0]
    /\ localRes = [r \in Runs |-> "none"]
    /\ pullRes = [r \in Runs |-> "none"]
    /\ existsRes = [r \in Runs |-> "none"]
    /\ callBuilds = [r \in Runs |-> 0]
    /\ ensureErr = [r \in Runs |-> "none"]
    /\ builds = [r \in Runs |-> 0]
    /\ prevEnd = [r \in Runs |-> "none"]
    /\ buildCmd = [r \in Runs |-> "none"]
    /\ script = NoScript
    /\ builtFrom = [r \in Runs |-> NoScript]

\* All pairs are DockerBenchmark objects of one framework.
InitEnsure ==
    /\ InitCalls
    /\ kind = [r \in Runs |-> "DockerBenchmark"]

\* The run specifications: every pair has its image.
ImagesReady ==
    /\ InitEnsure
    /\ image = [r \in Runs |-> 1]
    /\ cache = TRUE
    /\ localImages = {1}

\* Concurrent runs on a host whose directories all exist.
InitRun ==
    /\ InitCommon
    /\ pc = [r \in Runs |-> "idle"]
    /\ pairState = [r \in Runs |-> "IMAGE_READY"]
    /\ sid \in SidAssignments
    /\ dirs = AllDirs
    /\ ImagesReady

\* One run on a host in any state of its file system.
InitMount ==
    /\ InitCommon
    /\ pc = [r \in Runs |-> IF r = 1 THEN "idle" ELSE "off"]
    /\ pairState = [r \in Runs |-> IF r = 1 THEN "IMAGE_READY" ELSE "PENDING"]
    /\ sid \in [Runs -> Sids]
    /\ dirs \in DirStates
    /\ ImagesReady

\* --------------------------------------- _start_container, lines 45 to 72
\* The directories are touched, the name and the command are computed, and
\* run_cmd(cmd) spawns `docker run` and blocks (line 72).
Start(r, p) ==
    /\ pc[r] = "idle"
    /\ params' = [params EXCEPT ![r] = p]
    /\ name' = [name EXCEPT ![r] = InstName(sid[r], p)]
    /\ cmd' = [cmd EXCEPT ![r] = RunCommand(sid[r], image[r], p)]
    /\ dirs' = dirs \cup TouchedDirs
    /\ mountsOk' = [mountsOk EXCEPT ![r] = MountDirs(sid[r]) \subseteq dirs']
    /\ pairState' = [pairState EXCEPT ![r] = "RUNNING"]
    /\ pc' = [pc EXCEPT ![r] = "run"]
    /\ UNCHANGED <<sid, waitEnd, outcome, kills, killRes, stopFound,
                   containers>>
    /\ UNCHANGED <<imgVars, restVars>>

\* How a wait that ended leaves line 72: a normal return leaves
\* _start_container, everything else enters the handler.
EndWait(r, how) ==
    /\ waitEnd' = [waitEnd EXCEPT ![r] = how]
    /\ IF HandlerEntered(how)
       THEN /\ pc' = [pc EXCEPT ![r] = "handler"]
            /\ UNCHANGED <<outcome, pairState>>
       ELSE /\ pc' = [pc EXCEPT ![r] = "returned"]
            /\ outcome' = [outcome EXCEPT ![r] = how]
            /\ pairState' = [pairState EXCEPT ![r] = PairStateAfter(how)]

\* docker: the container is created under --name; a name is held by one
\* container at a time.
ContainerStarts(r) ==
    /\ pc[r] = "run"
    /\ waitEnd[r] = "pending"
    /\ ~NameUp(name[r])
    /\ containers' = containers \cup {<<name[r], r>>}
    /\ waitEnd' = [waitEnd EXCEPT ![r] = "started"]
    /\ UNCHANGED <<pc, sid, params, name, cmd, outcome, kills, killRes,
                   stopFound, mountsOk, pairState, dirs>>
    /\ UNCHANGED <<imgVars, restVars>>

\* docker: no container is created (the name is taken, the image is missing,
\* the daemon refuses); `docker run` exits nonzero and run_cmd raises.
LaunchFails(r) ==
    /\ pc[r] = "run"
    /\ ~OwnUp(r)
    /\ EndWait(r, "RunError")
    /\ UNCHANGED <<sid, params, name, cmd, kills, killRes, stopFound, mountsOk,
                   containers, dirs>>
    /\ UNCHANGED <<imgVars, restVars>>

\* docker: the container exits by itself and --rm removes it; `docker run`
\* returns its exit status.
ContainerExits(r, status) ==
    /\ pc[r] = "run"
    /\ OwnUp(r)
    /\ containers' = containers \ {<<name[r], r>>}
    /\ EndWait(r, IF status = 0 THEN "ok" ELSE "RunError")
    /\ UNCHANGED <<sid, params, name, cmd, kills, killRes, stopFound, mountsOk,
                   dirs>>
    /\ UNCHANGED <<imgVars, restVars>>

\* The control thread receives SIGINT while it waits: KeyboardInterrupt.
Interrupt(r) ==
    /\ pc[r] = "run"
    /\ EndWait(r, "KeyboardInterrupt")
    /\ UNCHANGED <<sid, params, name, cmd, kills, killRes, stopFound, mountsOk,
                   containers, dirs>>
    /\ UNCHANGED <<imgVars, restVars>>

\* ------------------------------------------------ the handler, 73 to 79
\* Control leaves _start_container through the bare raise of line 79.
Raise(r, kr) ==
    LET out == HandlerOutcome(waitEnd[r], kr)
    IN  /\ killRes' = [killRes EXCEPT ![r] = kr]
        /\ stopFound' = [stopFound EXCEPT ![r] =
               IF kr = "unissued" THEN "none"
               ELSE IF NameUp(KillName(sid[r], params[r])) THEN "up"
               ELSE "absent"]
        /\ outcome' = [outcome EXCEPT ![r] = out]
        /\ pairState' = [pairState EXCEPT ![r] = PairStateAfter(out)]
        /\ pc' = [pc EXCEPT ![r] = "raised"]

\* line 75: run_cmd spawns `docker kill <inst_name>`.
IssueKill(r) ==
    /\ pc[r] = "handler"
    /\ kills' = [kills EXCEPT ![r] = @ + 1]
    /\ pc' = [pc EXCEPT ![r] = "killing"]
    /\ UNCHANGED <<sid, params, name, cmd, waitEnd, outcome, killRes,
                   stopFound, mountsOk, pairState, containers, dirs>>
    /\ UNCHANGED <<imgVars, restVars>>

\* A further SIGINT reaches the control thread inside the handler before the
\* kill command is spawned: the KeyboardInterrupt leaves the handler at once.
InterruptBeforeKill(r) ==
    /\ pc[r] = "handler"
    /\ Raise(r, "unissued")
    /\ UNCHANGED <<sid, params, name, cmd, waitEnd, kills, mountsOk,
                   containers, dirs>>
    /\ UNCHANGED <<imgVars, restVars>>

\* docker kill finds a container of that name and kills it.
KillSucceeds(r) ==
    /\ pc[r] = "killing"
    /\ NameUp(KillName(sid[r], params[r]))
    /\ containers' = containers \ Named(KillName(sid[r], params[r]))
    /\ Raise(r, "ok")
    /\ UNCHANGED <<sid, params, name, cmd, waitEnd, kills, mountsOk, dirs>>
    /\ UNCHANGED <<imgVars, restVars>>

\* docker kill exits nonzero: no container of that name ("No such
\* container"), or the daemon fails; run_cmd raises, `except Exception: pass`.
KillFails(r) ==
    /\ pc[r] = "killing"
    /\ Raise(r, "fail")
    /\ UNCHANGED <<sid, params, name, cmd, waitEnd, kills, mountsOk,
                   containers, dirs>>
    /\ UNCHANGED <<imgVars, restVars>>

\* A further SIGINT while run_cmd waits for `docker kill`: the command was
\* spawned, and it took effect or not.
InterruptDuringKill(r, done) ==
    /\ pc[r] = "killing"
    /\ containers' = IF done THEN containers \ Named(KillName(sid[r], params[r]))
                     ELSE containers
    /\ Raise(r, "interrupted")
    /\ UNCHANGED <<sid, params, name, cmd, waitEnd, kills, mountsOk, dirs>>
    /\ UNCHANGED <<imgVars, restVars>>

\* docker: a container whose `docker run` client is gone exits by itself.
OrphanExits(r) ==
    /\ pc[r] \in {"handler", "killing", "raised"}
    /\ OwnUp(r)
    /\ containers' = containers \ {<<name[r], r>>}
    /\ UNCHANGED <<pc, sid, params, name, cmd, waitEnd, outcome, kills,
                   killRes, stopFound, mountsOk, pairState, dirs>>
    /\ UNCHANGED <<imgVars, restVars>>

NextRun ==
    \E r \in Runs :
        \/ \E p \in Params : Start(r, p)
        \/ ContainerStarts(r)
        \/ LaunchFails(r)
        \/ \E status \in {0, 1} : ContainerExits(r, status)
        \/ Interrupt(r)
        \/ IssueKill(r)
        \/ InterruptBeforeKill(r)
        \/ KillSucceeds(r)
        \/ KillFails(r)
        \/ \E done \in BOOLEAN : InterruptDuringKill(r, done)
        \/ OrphanExits(r)

SpecRun == InitRun /\ [][NextRun]_vars

SpecMount == InitMount /\ [][NextRun]_vars

\* ======================================================= ensuring the image
\* Image identities are interchangeable, as session ids are.
ImageAssignments ==
    {f \in [Runs -> Images] :
        \A r \in Runs : \A i \in Images :
            (f[r] = i /\ i > 1) => \E q \in 1..(r - 1) : f[q] >= i - 1}

\* Pairs that have not ensured their image yet, on a host with any set of
\* local images.
InitImage ==
    /\ InitCommon
    /\ InitEnsure
    /\ pc = [r \in Runs |-> "idle"]
    /\ pairState = [r \in Runs |-> "PENDING"]
    /\ sid = [r \in Runs |-> 1]
    /\ dirs = AllDirs
    /\ image \in ImageAssignments
    /\ cache \in BOOLEAN
    /\ localImages \in SUBSET {image[r] : r \in Runs}

\* The pair's ensure call ends: the image is there, or the error propagates.
EnsureEnds(p, ok) ==
    /\ ipc' = [ipc EXCEPT ![p] = IF ok THEN "ready" ELSE "failed"]
    /\ pairState' =
           [r \in Runs |->
               IF r = p THEN PairStateAfterEnsure(ok)
               ELSE IF ~ok /\ AbortedWith(r, p) THEN "ABORTED"
               ELSE pairState[r]]

\* _image_exists has returned `exists`: ensure builds or is done.
AfterExists(p, exists) ==
    /\ existsRes' = [existsRes EXCEPT ![p] = IF exists THEN "true" ELSE "false"]
    /\ IF BuildNeeded(exists)
       THEN /\ ipc' = [ipc EXCEPT ![p] = "build"]
            /\ script' = GenerateScript(kind[p])
            /\ UNCHANGED pairState
       ELSE EnsureEnds(p, TRUE) /\ UNCHANGED script

\* ensure is called for the pair (again, after an earlier call ended).
CallEnsure(p) ==
    /\ ipc[p] \in {"idle", "ready", "failed"}
    /\ calls[p] < MaxCalls
    /\ calls' = [calls EXCEPT ![p] = @ + 1]
    /\ prevEnd' = [prevEnd EXCEPT ![p] = IF ipc[p] = "idle" THEN "none" ELSE ipc[p]]
    /\ ipc' = [ipc EXCEPT ![p] = "check"]
    /\ localRes' = [localRes EXCEPT ![p] = "none"]
    /\ pullRes' = [pullRes EXCEPT ![p] = "none"]
    /\ existsRes' = [existsRes EXCEPT ![p] = "none"]
    /\ callBuilds' = [callBuilds EXCEPT ![p] = 0]
    /\ ensureErr' = [ensureErr EXCEPT ![p] = "none"]
    /\ pairState' = [pairState EXCEPT ![p] = "PENDING"]
    /\ UNCHANGED <<script, kind, builtFrom, image, builds, cache, buildCmd,
                   localImages>>
    /\ UNCHANGED <<launchVars, restVars>>

\* lines 83-86: `docker images -q` answers and the pattern is tried.
LocalCheck(p) ==
    /\ ipc[p] = "check"
    /\ LET matched == IdMatches(Strip(ImagesOutput(image[p], localImages)))
       IN  /\ localRes' = [localRes EXCEPT ![p] =
                              IF matched THEN "match" ELSE "nomatch"]
           /\ IF PullAttempted(matched)
              THEN /\ ipc' = [ipc EXCEPT ![p] = "pull"]
                   /\ UNCHANGED <<existsRes, pairState, script>>
              ELSE AfterExists(p, ExistsResult(matched, "none"))
    /\ UNCHANGED <<kind, builtFrom, image, calls, ensureErr, pullRes,
                   callBuilds, builds, prevEnd, cache, buildCmd, localImages>>
    /\ UNCHANGED <<launchVars, restVars>>

\* line 83: `docker images` itself fails and run_cmd raises; nothing in
\* _image_exists catches it.
LocalCheckFails(p) ==
    /\ ipc[p] = "check"
    /\ localRes' = [localRes EXCEPT ![p] = "error"]
    /\ ensureErr' =
           [ensureErr EXCEPT ![p] = ImageExistsRaises("images", "RunError")]
    /\ IF ensureErr'[p] = "none"
       THEN AfterExists(p, FALSE)
       ELSE EnsureEnds(p, FALSE) /\ UNCHANGED <<existsRes, script>>
    /\ UNCHANGED <<kind, builtFrom, image, calls, pullRes, callBuilds, builds,
                   prevEnd, cache, buildCmd, localImages>>
    /\ UNCHANGED <<launchVars, restVars>>

\* lines 87-89: `docker pull` brings the image from the registry.
PullSucceeds(p) ==
    /\ ipc[p] = "pull"
    /\ pullRes' = [pullRes EXCEPT ![p] = "ok"]
    /\ localImages' = localImages \cup {image[p]}
    /\ AfterExists(p, ExistsResult(localRes[p] = "match", "ok"))
    /\ UNCHANGED <<kind, builtFrom, image, calls, ensureErr, localRes,
                   callBuilds, builds, prevEnd, cache, buildCmd>>
    /\ UNCHANGED <<launchVars, restVars>>

\* lines 90-92: `docker pull` fails, the Exception is dropped.
PullFails(p) ==
    /\ ipc[p] = "pull"
    /\ pullRes' = [pullRes EXCEPT ![p] = "fail"]
    /\ ensureErr' =
           [ensureErr EXCEPT ![p] = ImageExistsRaises("pull", "RunError")]
    /\ IF ensureErr'[p] = "none"
       THEN AfterExists(p, ExistsResult(localRes[p] = "match", "fail"))
       ELSE EnsureEnds(p, FALSE) /\ UNCHANGED <<existsRes, script>>
    /\ UNCHANGED <<kind, builtFrom, image, calls, localRes, callBuilds, builds,
                   prevEnd, cache, buildCmd, localImages>>
    /\ UNCHANGED <<launchVars, restVars>>

\* line 96: run_cmd spawns `docker build`.
IssueBuild(p) ==
    /\ ipc[p] = "build"
    /\ ipc' = [ipc EXCEPT ![p] = "building"]
    /\ callBuilds' = [callBuilds EXCEPT ![p] = @ + 1]
    /\ builds' = [builds EXCEPT ![p] = @ + 1]
    /\ buildCmd' = [buildCmd EXCEPT ![p] = BuildOptions(cache)]
    /\ builtFrom' = [builtFrom EXCEPT ![p] = script]
    /\ UNCHANGED <<script, kind, image, calls, ensureErr, localRes, pullRes,
                   existsRes, prevEnd, cache, localImages, pairState>>
    /\ UNCHANGED <<launchVars, restVars>>

\* line 103: the build ended well and the image is tagged.
BuildSucceeds(p) ==
    /\ ipc[p] = "building"
    /\ localImages' = localImages \cup {image[p]}
    /\ EnsureEnds(p, TRUE)
    /\ UNCHANGED <<script, kind, builtFrom, image, calls, ensureErr, localRes,
                   pullRes, existsRes, callBuilds, builds, prevEnd, cache,
                   buildCmd>>
    /\ UNCHANGED <<launchVars, restVars>>

\* `docker build` exits nonzero: run_cmd raises and the error propagates.
BuildFails(p) ==
    /\ ipc[p] = "building"
    /\ ensureErr' = [ensureErr EXCEPT ![p] = BuildRaises("RunError")]
    /\ EnsureEnds(p, ensureErr'[p] = "none")
    /\ UNCHANGED <<script, kind, builtFrom, image, calls, localRes, pullRes,
                   existsRes, callBuilds, builds, prevEnd, cache, buildCmd,
                   localImages>>
    /\ UNCHANGED <<launchVars, restVars>>

NextImage ==
    \E p \in Runs :
        \/ CallEnsure(p)
        \/ LocalCheck(p)
        \/ LocalCheckFails(p)
        \/ PullSucceeds(p)
        \/ PullFails(p)
        \/ IssueBuild(p)
        \/ BuildSucceeds(p)
        \/ BuildFails(p)

SpecImage == InitImage /\ [][NextImage]_vars

\* Pairs of one framework directory, of either class, on a host without
\* their images.
InitScript ==
    /\ InitCommon
    /\ InitCalls
    /\ kind \in [Runs -> Kinds]
    /\ pc = [r \in Runs |-> "idle"]
    /\ pairState = [r \in Runs |-> "PENDING"]
    /\ sid = [r \in Runs |-> 1]
    /\ dirs = AllDirs
    /\ image \in ImageAssignments
    /\ cache = TRUE
    /\ localImages = {}

SpecScript == InitScript /\ [][NextImage]_vars

\* ===================================== the life of a pair (spec section 4.4)
\* One pair that has not ensured its image yet, on a host with or without
\* the image.
InitPair ==
    /\ InitCommon
    /\ InitEnsure
    /\ pc = [r \in Runs |-> IF r = 1 THEN "idle" ELSE "off"]
    /\ pairState = [r \in Runs |-> "PENDING"]
    /\ sid = [r \in Runs |-> 1]
    /\ dirs = AllDirs
    /\ image = [r \in Runs |-> 1]
    /\ cache \in BOOLEAN
    /\ localImages \in SUBSET {1}

\* Two pairs of one session, the one that fails and the one that goes on,
\* neither of which has ensured its image yet.
InitSession ==
    /\ InitCommon
    /\ InitEnsure
    /\ pc = [r \in Runs |-> IF r <= 2 THEN "idle" ELSE "off"]
    /\ pairState = [r \in Runs |-> "PENDING"]
    /\ sid = [r \in Runs |-> 1]
    /\ dirs = AllDirs
    /\ image \in ImageAssignments
    /\ cache = TRUE
    /\ localImages \in SUBSET {image[r] : r \in Runs}

\* PENDING -> IMAGE_READY | ABORTED: the one ensure call of the pair.
PairEnsure(p) ==
    /\ pairState[p] = "PENDING"
    /\ pc[p] = "idle"
    /\ ipc[p] = "idle"
    /\ CallEnsure(p)

\* What _upload_image leaves alone: all but ipc and pushRes.
uploadFrame ==
    <<image, calls, localRes, pullRes, existsRes, callBuilds, ensureErr,
      builds, prevEnd, cache, buildCmd, localImages, kind, script, builtFrom,
      launchVars, pairState,
      result, expired, collected, adapterVars>>

\* line 107: run_cmd spawns `docker login && docker push` for the image the
\* call has built (the optional publish of spec section 4.1).
IssuePush(p) ==
    /\ ipc[p] = "ready"
    /\ callBuilds[p] = 1
    /\ pushRes[p] = "none"
    /\ pc[p] = "idle"
    /\ ipc' = [ipc EXCEPT ![p] = "pushing"]
    /\ UNCHANGED <<pushRes, uploadFrame>>

\* line 108: the push ended well.
PushSucceeds(p) ==
    /\ ipc[p] = "pushing"
    /\ ipc' = [ipc EXCEPT ![p] = "ready"]
    /\ pushRes' = [pushRes EXCEPT ![p] = "ok"]
    /\ UNCHANGED uploadFrame

\* `docker login && docker push` exits nonzero: run_cmd raises and the error
\* leaves _upload_image; the image built stays (spec section 4.1).
PushFails(p) ==
    /\ ipc[p] = "pushing"
    /\ ipc' = [ipc EXCEPT ![p] = "ready"]
    /\ pushRes' = [pushRes EXCEPT ![p] = UploadRaises("RunError")]
    /\ UNCHANGED uploadFrame

\* The parameters forwarded for a pair name its unit of work: the pairs of a
\* session forward different ones, as far as there are different ones.
PairParams(r) == (r - 1) % (MaxParam + 1)

\* IMAGE_READY -> RUNNING: _start_container is called for the pair.
StartPair(r) ==
    /\ MayStart(pairState[r], ipc[r])
    /\ Start(r, PairParams(r))

\* What the steps around the run leave alone.
aroundRun ==
    <<sid, params, name, cmd, waitEnd, outcome, kills, killRes, stopFound,
      mountsOk, containers, dirs, imgVars, pushRes, adapterVars>>

\* The process in the container writes its result into /output, well formed
\* or not.
WriteResult(r, artifact) ==
    /\ pc[r] = "run"
    /\ OwnUp(r)
    /\ result[r] = "none"
    /\ result' = [result EXCEPT ![r] = artifact]
    /\ UNCHANGED <<pc, pairState, expired, collected, aroundRun>>

\* The configured maximum runtime of the run is over. run_cmd(cmd) of line 72
\* is given no timeout: the wait goes on.
RuntimeExpires(r) ==
    /\ pc[r] = "run"
    /\ ~expired[r]
    /\ expired' = [expired EXCEPT ![r] = TRUE]
    /\ UNCHANGED <<pc, pairState, result, collected, aroundRun>>

\* RUNNING -> COMPLETE | ABORTED: after the normal return of
\* _start_container the result is read back from the output mount.
Collect(r) ==
    /\ pc[r] = "returned"
    /\ pc' = [pc EXCEPT ![r] = "collected"]
    /\ collected' = [collected EXCEPT ![r] = result[r]]
    /\ pairState' = [pairState EXCEPT ![r] = PairStateAfterCollect(result[r])]
    /\ UNCHANGED <<result, expired, aroundRun>>

NextPair ==
    \E r \in Runs :
        \/ PairEnsure(r)
        \/ LocalCheck(r)
        \/ LocalCheckFails(r)
        \/ PullSucceeds(r)
        \/ PullFails(r)
        \/ IssueBuild(r)
        \/ BuildSucceeds(r)
        \/ BuildFails(r)
        \/ IssuePush(r)
        \/ PushSucceeds(r)
        \/ PushFails(r)
        \/ StartPair(r)
        \/ ContainerStarts(r)
        \/ LaunchFails(r)
        \/ \E status \in {0, 1} : ContainerExits(r, status)
        \/ Interrupt(r)
        \/ IssueKill(r)
        \/ InterruptBeforeKill(r)
        \/ KillSucceeds(r)
        \/ KillFails(r)
        \/ \E done \in BOOLEAN : InterruptDuringKill(r, done)
        \/ OrphanExits(r)
        \/ \E artifact \in {"valid", "malformed"} : WriteResult(r, artifact)
        \/ RuntimeExpires(r)
        \/ Collect(r)

SpecPair == InitPair /\ [][NextPair]_vars

SpecSession == InitSession /\ [][NextPair]_vars

\* The steps of the pair's control thread and of the docker commands it waits
\* for, all of which end: `docker images`, pull, build, push and kill, the
\* creation of the container, the reading of the result. The container's own
\* end, signals and the clock are left to the environment.
ThreadStep(r) ==
    \/ PairEnsure(r)
    \/ LocalCheck(r)
    \/ PullSucceeds(r) \/ PullFails(r)
    \/ IssueBuild(r)
    \/ BuildSucceeds(r) \/ BuildFails(r)
    \/ PushSucceeds(r) \/ PushFails(r)
    \/ StartPair(r)
    \/ ContainerStarts(r)
    \/ IssueKill(r)
    \/ KillSucceeds(r) \/ KillFails(r)
    \/ Collect(r)

\* A step by which the life of pair r goes on without a signal: a step of its
\* control thread, or the end of its `docker run`.
Progress(r) ==
    \/ ThreadStep(r)
    \/ LocalCheckFails(r)
    \/ LaunchFails(r)
    \/ \E status \in {0, 1} : ContainerExits(r, status)

\* One pair's life, in which its control thread is not stopped for ever.
SpecPairFair == SpecPair /\ \A r \in Runs : WF_vars(ThreadStep(r))

\* ================================ the adapters (src/frameworks/*/exec.py)
Adapters ==
    {"RandomForest", "DecisionTree", "constantpredictor", "TunedRandomForest",
     "flaml"}

\* config.task_type: the two values the adapters know, and others.
TaskTypes == {"train", "predict", "bogus", ""}

\* What lies at config.model_path: a model as the adapter saves it, nothing
\* (or no path at all), or a file that does not load.
ModelFiles == {"model", "missing", "corrupt"}

\* A plausible slip: `else:` takes the place of `elif ... == 'train':`.
BranchDefaultTrain(t) == IF t = "predict" THEN "predict" ELSE "train"

\* if config.task_type == 'train': ... elif config.task_type == 'predict':
\* ... else: raise ValueError (RandomForest lines 37, 58, 66).
Branch(t) ==
    CASE t = "train" -> "train"
      [] t = "predict" -> "predict"
      [] OTHER -> "raise"

\* A plausible slip: the path of the loaded model is reported.
AfterLoadKeepsPath(path) == [training_duration |-> "zero", model_path |-> path]

\* training_duration = 0.0; model_path = None (RandomForest lines 63-64),
\* after the model was loaded from `path`.
AfterLoad(path) == [training_duration |-> "zero", model_path |-> "None"]

\* A plausible slip: the directory is reported though nothing was written.
AfterDumpKeepsPath(path, ok) == path

\* except: model_path = None (RandomForest lines 54-56): the path of the
\* directory stays only when open and pickle.dump raised nothing.
AfterDump(path, ok) == IF ok THEN path ELSE "None"

\* TunedRandomForest evaluates values of max_features before the final fit
\* (its lines 54-116).
Tunes(a) == a = "TunedRandomForest"

\* config.metric: a metric of TunedRandomForest's table and one of the
\* benchmark's metrics the table lacks.
Metrics == {"acc", "balacc"}

\* The keys of the dict of TunedRandomForest lines 55-63.
TunedMetrics == {"acc", "auc", "f1", "logloss", "mae", "mse", "r2", "rmse"}

\* The metric lookup of an adapter: TunedRandomForest indexes its dict with
\* config.metric (line 64, KeyError without the key), flaml falls back to
\* 'auto' (its lines 39-40), the other three never read config.metric.
MetricRaises(a, mt) == a = "TunedRandomForest" /\ mt \notin TunedMetrics

\* int(math.sqrt(p))
Isqrt(p) == CHOOSE k \in 0..p : k * k <= p /\ (k + 1) * (k + 1) > p

\* sorted(S) for a set of integers
RECURSIVE Sorted(_)
Sorted(S) ==
    IF S = {} THEN <<>>
    ELSE LET lo == CHOOSE x \in S : \A y \in S : x <= y
         IN  <<lo>> \o Sorted(S \ {lo})

\* pick_values_uniform (TunedRandomForest lines 31-34): int(start + i * d)
\* with d = (end - start) / (length - 1), for i in range(length), as a
\* sorted list without duplicates.  The floats are computed here as exact
\* quotients; for 1 <= start <= end <= 200 and the two lengths the adapter
\* uses, the double arithmetic of the code yields the same integers.
pick_values_uniform(start, end, length) ==
    Sorted({start + ((i * (end - start)) \div (length - 1)) :
                i \in 0..(length - 1)})

\* default_value = max(1, int(math.sqrt(n_features)))  (line 67)
default_value(p) == IF Isqrt(p) > 1 THEN Isqrt(p) ELSE 1

\* s[:-1] and s[1:]
ButLast(s) == SubSeq(s, 1, Len(s) - 1)
Rest(s) == SubSeq(s, 2, Len(s))

\* below_default = pick_values_uniform(start=1, end=default_value,
\* length=5+1)[:-1]  (line 68)
below_default(p) == ButLast(pick_values_uniform(1, default_value(p), 5 + 1))

\* above_default = pick_values_uniform(start=default_value, end=n_features,
\* length=10+1 - len(below_default))[1:]  (line 69)
above_default(p) ==
    Rest(pick_values_uniform(default_value(p), p,
                             10 + 1 - Len(below_default(p))))

\* max_features_values = [default_value] + below_default + above_default
\* (line 75)
max_features_values(p) ==
    <<default_value(p)>> \o below_default(p) \o above_default(p)

\* math.nan, the score recorded for a candidate whose scoring raised
\* (line 111), and 'auto' (line 116), as numbers no score or candidate has.
NaN == 0 - 1
Auto == 0
Scores == 1..MaxScore

\* a > b for two (score, value) tuples as Python compares them: the first
\* elements that are the same object or equal are skipped, and every
\* comparison of math.nan with a number is False.
TupleGt(a, b) ==
    IF a[1] = b[1] THEN a[2] > b[2]
    ELSE a[1] # NaN /\ b[1] # NaN /\ a[1] > b[1]

\* max(list): the first element, replaced by each later one that is greater.
RECURSIVE MaxFrom(_, _, _)
MaxFrom(list, i, cur) ==
    IF i > Len(list) THEN cur
    ELSE MaxFrom(list, i + 1, IF TupleGt(list[i], cur) THEN list[i] ELSE cur)

\* _, best_max_features_value = max(max_feature_scores)
\*     if len(max_feature_scores) > 0 else (math.nan, 'auto')   (line 116)
best_max_features_value(scores) ==
    IF Len(scores) > 0 THEN MaxFrom(scores, 2, scores[1])[2] ELSE Auto

\* training_duration = training.duration (RandomForest line 45), to which
\* TunedRandomForest adds the durations of the candidates it evaluated
\* (its line 125).
TrainingDuration(a, durations) ==
    IF Tunes(a) /\ Len(durations) > 0 THEN "timed+tuning" ELSE "timed"

\* A plausible slip: predict does not wait for the saving.
MayPredictUnsaved(at) == at \in {"fitted", "dir", "saved", "loaded"}

\* predict stands after the if / elif / else: it is reached from the end of
\* the saving or of the load (RandomForest lines 56, 64, 69).
MayPredict(at) == at \in {"saved", "loaded"}

\* A plausible slip: predict_proba is called whatever the task.
ProbabilitiesAlways(cls) == "present"

\* probabilities = rf.predict_proba(X_test) if is_classification else None
\* (RandomForest line 71)
Probabilities(cls) == IF cls THEN "present" ELSE "None"

hostVars == <<runVars, imgVars, pairVars>>
adapterInput == <<adapter, taskType, classification, modelFile, rows, metric,
                  nFeatures>>

\* An adapter's run is about to begin; the host side stands still.
AdapterStart ==
    /\ InitHost
    /\ InitEnsure
    /\ pc = [r \in Runs |-> "off"]
    /\ pairState = [r \in Runs |-> "RUNNING"]
    /\ sid = [r \in Runs |-> 1]
    /\ dirs = AllDirs
    /\ image = [r \in Runs |-> 1]
    /\ cache = TRUE
    /\ localImages = {1}
    /\ apc = "start"
    /\ AdapterLocals

\* A run of one adapter for any configuration.
InitAdapter ==
    /\ AdapterStart
    /\ adapter \in Adapters
    /\ taskType \in TaskTypes
    /\ classification \in BOOLEAN
    /\ modelFile \in ModelFiles
    /\ rows \in 1..MaxRows
    /\ metric \in Metrics
    /\ nFeatures \in 1..MaxTuned

\* An error leaves run.
AdapterRaise(e) ==
    /\ err' = e
    /\ apc' = "raised"

\* else: raise ValueError(f"Unknown task_type: {config.task_type}")
UnknownTask ==
    /\ apc = "start"
    /\ Branch(taskType) = "raise"
    /\ AdapterRaise("ValueError")
    /\ UNCHANGED <<ops, saveRes, trainingDuration, modelPath, predictions,
                   probabilities, res, adapterInput, tuneVars,
                   hostVars>>

\* TunedRandomForest lines 54-64: the scoring of config.metric is looked up
\* in the dict; a metric that is not a key raises KeyError.
LookupMetric ==
    /\ apc = "start"
    /\ Branch(taskType) = "train"
    /\ Tunes(adapter)
    /\ ops' = Append(ops, "metric")
    /\ IF MetricRaises(adapter, metric)
       THEN AdapterRaise("KeyError")
       ELSE apc' = "metric" /\ UNCHANGED err
    /\ UNCHANGED <<saveRes, trainingDuration, modelPath, predictions,
                   probabilities, res, adapterInput, tuneVars, hostVars>>

\* TunedRandomForest lines 66-75: the values of max_features to try.
PickValues ==
    /\ apc = "metric"
    /\ ops' = Append(ops, "pick")
    /\ apc' = "picked"
    /\ maxFeaturesValues' = max_features_values(nFeatures)
    /\ UNCHANGED <<listsBound, maxFeatureScores, tuningDurations, bestValue>>
    /\ UNCHANGED <<err, saveRes, trainingDuration, modelPath, predictions,
                   probabilities, res, adapterInput, hostVars>>

\* line 79: the scope of stopit.ThreadingTimeout is entered and its timer
\* runs.
EnterScope ==
    /\ apc = "picked"
    /\ apc' = "scope"
    /\ UNCHANGED <<ops, err, saveRes, trainingDuration, modelPath, predictions,
                   probabilities, res, adapterInput, tuneVars, hostVars>>

\* lines 81-82: max_feature_scores = []; tuning_durations = []
BindLists ==
    /\ apc = "scope"
    /\ apc' = "tuning"
    /\ listsBound' = TRUE
    /\ maxFeatureScores' = <<>>
    /\ tuningDurations' = <<>>
    /\ UNCHANGED <<maxFeaturesValues, bestValue>>
    /\ UNCHANGED <<ops, err, saveRes, trainingDuration, modelPath, predictions,
                   probabilities, res, adapterInput, hostVars>>

\* The value of max_features the loop of line 83 is at.
Candidate == maxFeaturesValues[Len(tuningDurations) + 1]

\* lines 84-103, 112: cross_val_score returns and the mean of the scores is
\* recorded with the value; the time of the scoring is recorded.
ScoreCandidate(s) ==
    /\ apc = "tuning"
    /\ Len(tuningDurations) < Len(maxFeaturesValues)
    /\ ops' = Append(ops, "cv")
    /\ maxFeatureScores' = Append(maxFeatureScores, <<s, Candidate>>)
    /\ tuningDurations' = Append(tuningDurations, Candidate)
    /\ UNCHANGED <<apc, maxFeaturesValues, listsBound, bestValue>>
    /\ UNCHANGED <<err, saveRes, trainingDuration, modelPath, predictions,
                   probabilities, res, adapterInput, hostVars>>

\* lines 108-112: cross_val_score raises an Exception, math.nan is recorded
\* as the score of the value; the time of the scoring is recorded.
ScoringFails ==
    /\ apc = "tuning"
    /\ Len(tuningDurations) < Len(maxFeaturesValues)
    /\ ops' = Append(ops, "cv")
    /\ maxFeatureScores' = Append(maxFeatureScores, <<NaN, Candidate>>)
    /\ tuningDurations' = Append(tuningDurations, Candidate)
    /\ UNCHANGED <<apc, maxFeaturesValues, listsBound, bestValue>>
    /\ UNCHANGED <<err, saveRes, trainingDuration, modelPath, predictions,
                   probabilities, res, adapterInput, hostVars>>

\* lines 104-107: the timer fires inside cross_val_score: the time of the
\* scoring is recorded and the TimeoutException raised again, which leaves
\* the loop before line 112 and is dropped at the end of the scope.
ScoringTimesOut ==
    /\ apc = "tuning"
    /\ Len(tuningDurations) < Len(maxFeaturesValues)
    /\ ops' = Append(ops, "cv")
    /\ apc' = "tuned"
    /\ tuningDurations' = Append(tuningDurations, Candidate)
    /\ UNCHANGED <<maxFeaturesValues, listsBound, maxFeatureScores, bestValue>>
    /\ UNCHANGED <<err, saveRes, trainingDuration, modelPath, predictions,
                   probabilities, res, adapterInput, hostVars>>

\* The timer fires at a statement of the scope outside the try of lines
\* 96-111: the TimeoutException leaves the scope, where it is dropped.  At
\* lines 79-82 the two lists are not assigned yet.
ScopeTimesOut ==
    /\ apc \in {"scope", "tuning"}
    /\ apc' = "tuned"
    /\ UNCHANGED <<ops, err, saveRes, trainingDuration, modelPath, predictions,
                   probabilities, res, adapterInput, tuneVars, hostVars>>

\* line 83: every value was evaluated, the loop and the scope end.
LoopEnds ==
    /\ apc = "tuning"
    /\ Len(tuningDurations) = Len(maxFeaturesValues)
    /\ apc' = "tuned"
    /\ UNCHANGED <<ops, err, saveRes, trainingDuration, modelPath, predictions,
                   probabilities, res, adapterInput, tuneVars, hostVars>>

\* lines 114-116: the lists are logged and the best value is taken; a name
\* that was never assigned raises UnboundLocalError.
BestValue ==
    /\ apc = "tuned"
    /\ IF listsBound
       THEN /\ apc' = "best"
            /\ bestValue' = <<best_max_features_value(maxFeatureScores)>>
            /\ UNCHANGED err
       ELSE /\ AdapterRaise("UnboundLocalError")
            /\ UNCHANGED bestValue
    /\ UNCHANGED <<maxFeaturesValues, listsBound, maxFeatureScores,
                   tuningDurations>>
    /\ UNCHANGED <<ops, saveRes, trainingDuration, modelPath, predictions,
                   probabilities, res, adapterInput, hostVars>>

\* with Timer() as training: rf.fit(X_train, y_train) (RandomForest 43-45)
Fit(ok) ==
    /\ apc = IF Tunes(adapter) THEN "best" ELSE "start"
    /\ Branch(taskType) = "train"
    /\ ops' = Append(ops, "fit")
    /\ IF ok
       THEN /\ apc' = "fitted"
            /\ trainingDuration' = TrainingDuration(adapter, tuningDurations)
            /\ UNCHANGED err
       ELSE /\ AdapterRaise("FitError")
            /\ UNCHANGED trainingDuration
    /\ UNCHANGED <<saveRes, modelPath, predictions, probabilities, res,
                   adapterInput, tuneVars,
                   hostVars>>

\* model_path = tmp.mkdtemp() (RandomForest line 48): it stands before the
\* try, an error of it leaves run.
MakeDir(ok) ==
    /\ apc = "fitted"
    /\ ops' = Append(ops, "mkdtemp")
    /\ IF ok
       THEN /\ apc' = "dir"
            /\ modelPath' = "dir"
            /\ UNCHANGED <<err, saveRes>>
       ELSE /\ AdapterRaise("SaveError")
            /\ saveRes' = "raised"
            /\ UNCHANGED modelPath
    /\ UNCHANGED <<trainingDuration, predictions, probabilities, res,
                   adapterInput, tuneVars,
                   hostVars>>

\* try: open(...), pickle.dump(rf, f) / except: model_path = None
\* (RandomForest lines 49-56).
Dump(ok) ==
    /\ apc = "dir"
    /\ ops' = Append(ops, "dump")
    /\ apc' = "saved"
    /\ saveRes' = IF ok THEN "ok" ELSE "raised"
    /\ modelPath' = AfterDump(modelPath, ok)
    /\ UNCHANGED <<err, trainingDuration, predictions, probabilities, res,
                   adapterInput, tuneVars,
                   hostVars>>

\* with open(os.path.join(config.model_path, 'model.pkl'), 'rb') as f:
\* rf = pickle.load(f) (RandomForest lines 59-64); without a model at the
\* path the error leaves run.
Load ==
    /\ apc = "start"
    /\ Branch(taskType) = "predict"
    /\ ops' = Append(ops, "load")
    /\ IF modelFile = "model"
       THEN /\ apc' = "loaded"
            /\ trainingDuration' = AfterLoad("dir").training_duration
            /\ modelPath' = AfterLoad("dir").model_path
            /\ UNCHANGED err
       ELSE /\ AdapterRaise("LoadError")
            /\ UNCHANGED <<trainingDuration, modelPath>>
    /\ UNCHANGED <<saveRes, predictions, probabilities, res, adapterInput, tuneVars,
                   hostVars>>

\* predictions = rf.predict(X_test); probabilities = rf.predict_proba(X_test)
\* if is_classification else None (RandomForest lines 69-71).
Predict(ok) ==
    /\ MayPredict(apc)
    /\ ops' = Append(ops, "predict")
    /\ IF ok
       THEN /\ apc' = "predicted"
            /\ predictions' = rows
            /\ probabilities' = Probabilities(classification)
            /\ UNCHANGED err
       ELSE /\ AdapterRaise("PredictError")
            /\ UNCHANGED <<predictions, probabilities>>
    /\ UNCHANGED <<saveRes, trainingDuration, modelPath, res, adapterInput, tuneVars,
                   hostVars>>

\* return result(...) (RandomForest lines 73-81), or save_predictions(...)
\* and return dict(...) (DecisionTree lines 58-70).
Emit ==
    /\ apc = "predicted"
    /\ ops' = Append(ops, "emit")
    /\ apc' = "emitted"
    /\ res' = [predictions |-> predictions, probabilities |-> probabilities,
               training_duration |-> trainingDuration,
               model_path |-> modelPath]
    /\ UNCHANGED <<err, saveRes, trainingDuration, modelPath, predictions,
                   probabilities, adapterInput, tuneVars,
                   hostVars>>

NextAdapter ==
    \/ UnknownTask
    \/ LookupMetric
    \/ PickValues
    \/ EnterScope
    \/ BindLists
    \/ \E s \in Scores : ScoreCandidate(s)
    \/ ScoringFails
    \/ ScoringTimesOut
    \/ ScopeTimesOut
    \/ LoopEnds
    \/ BestValue
    \/ \E ok \in BOOLEAN : Fit(ok)
    \/ \E ok \in BOOLEAN : MakeDir(ok)
    \/ \E ok \in BOOLEAN : Dump(ok)
    \/ Load
    \/ \E ok \in BOOLEAN : Predict(ok)
    \/ Emit

SpecAdapter == InitAdapter /\ [][NextAdapter]_vars

\* TunedRandomForest picks the values of max_features for a training set of
\* any width.
InitPick ==
    /\ AdapterStart
    /\ adapter = "TunedRandomForest"
    /\ taskType = "train"
    /\ classification \in BOOLEAN
    /\ modelFile = "model"
    /\ rows = 1
    /\ metric \in Metrics
    /\ nFeatures \in 1..MaxFeatures

NextPick ==
    \/ LookupMetric
    \/ PickValues

SpecPick == InitPick /\ [][NextPick]_vars

\* ================================================== properties of the run
Exited(r) == pc[r] \in {"returned", "raised"}
WaitRaised(r) == waitEnd[r] \in {"RunError", "KeyboardInterrupt"}
\* docker run was issued and _start_container has not returned.
Live(r) == pc[r] \in {"run", "handler", "killing"}

C2_ExactlyOneStop ==
    \A r \in Runs : (Exited(r) /\ WaitRaised(r)) => kills[r] = 1

\* C3: when the wait ended with error E and the `docker kill` failed, the
\* caller observes exactly E and never the error of the kill.
C3_StopFailureSwallowed ==
    \A r \in Runs :
        (pc[r] = "raised" /\ killRes[r] = "fail") =>
            (outcome[r] = waitEnd[r] /\ WaitRaised(r))

C3_Witness ==
    \E r \in Runs :
        /\ pc[r] = "raised" /\ killRes[r] = "fail" /\ kills[r] = 1
        /\ waitEnd[r] = "RunError" /\ outcome[r] = "RunError"

C7_MountsExistAtRun ==
    \A r \in Runs : (Live(r) \/ Exited(r)) => mountsOk[r]

C9_OneBuildPerIdentity ==
    \A p, q \in Runs :
        (p # q /\ image[p] = image[q]) =>
            ~(ipc[p] = "building" /\ ipc[q] = "building")

\* C10: within one ensure call the pull is attempted only after the local
\* check found nothing, the build is invoked only after the local check found
\* nothing and the pull failed, and _image_exists reports the image exactly
\* when the local check matched or the pull succeeded.
C10_CheckPullBuildOrder ==
    \A p \in Runs :
        /\ pullRes[p] # "none" => localRes[p] = "nomatch"
        /\ (callBuilds[p] > 0 \/ ipc[p] = "build") =>
               (localRes[p] = "nomatch" /\ pullRes[p] = "fail")
        /\ existsRes[p] # "none" =>
               (existsRes[p] = "true" <=>
                    (localRes[p] = "match" \/ pullRes[p] = "ok"))

C10_Witness ==
    \E p, q \in Runs :
        /\ ipc[p] = "building" /\ localRes[p] = "nomatch" /\ pullRes[p] = "fail"
        /\ existsRes[p] = "false"
        /\ ipc[q] = "ready" /\ pullRes[q] = "ok" /\ existsRes[q] = "true"

\* ============================================ properties of a pair's life
\* C11: within one pair the phases are strictly ordered: a `docker run` has
\* been issued only for a pair whose ensure call has ended with the image on
\* the host, the result is read back only after the run was started and has
\* ended (its container is gone), and the pair is COMPLETE only after that.
C11_PhasesOrdered ==
    \A r \in Runs :
        /\ cmd[r] # NoCommand =>
               /\ ipc[r] = "ready" /\ image[r] \in localImages
               /\ pairState[r] \notin {"PENDING", "IMAGE_READY"}
        /\ pc[r] = "collected" =>
               (cmd[r] # NoCommand /\ waitEnd[r] = "ok" /\ ~OwnUp(r))
        /\ pairState[r] = "COMPLETE" => pc[r] = "collected"

C11_Witness ==
    \E r \in Runs :
        /\ callBuilds[r] = 1 /\ ipc[r] = "ready"
        /\ pc[r] = "collected" /\ collected[r] = "valid"
        /\ pairState[r] = "COMPLETE"

\* The life of the pair has ended: the error of _start_container was raised,
\* or the result was read back.
Ended(r) == pc[r] \in {"raised", "collected"}

\* C12: a pair is COMPLETE only when its process exited with status 0, a
\* readable result was found in the output mount and its maximum runtime was
\* not exceeded; after a nonzero exit, a missing or unreadable result or a
\* timeout the pair is ABORTED and never COMPLETE.
C12_CompleteOnlyOnValidResult ==
    \A r \in Runs :
        /\ pairState[r] = "COMPLETE" =>
               (waitEnd[r] = "ok" /\ collected[r] = "valid" /\ ~expired[r])
        /\ (Ended(r) /\ (waitEnd[r] # "ok" \/ collected[r] # "valid"
                                            \/ expired[r])) =>
               pairState[r] = "ABORTED"

\* C13: a run never hangs: when the maximum runtime is over while the pair is
\* RUNNING, the pair eventually is ABORTED (by the forced stop of the run).
C13_TimeoutAborts ==
    \A r \in Runs :
        (expired[r] /\ pairState[r] = "RUNNING") ~> (pairState[r] = "ABORTED")

Terminal(r) == pairState[r] \in {"COMPLETE", "ABORTED"}

\* C14: partial failure isolation. A pair becomes ABORTED only in a step in
\* which its own ensure call failed, its own _start_container raised or its
\* own result was found missing or unreadable; a step that changes the state
\* of one pair leaves the state and the position of every other pair as they
\* were; and a pair that has not reached a terminal state can go on, whatever
\* states the other pairs are in.
C14_FailureIsolated ==
    /\ [](\A r \in Runs :
              (pc[r] # "off" /\ ~Terminal(r)) => ENABLED Progress(r))
    /\ [][\A r \in Runs :
            /\ (pairState'[r] = "ABORTED" /\ pairState[r] # "ABORTED") =>
                   \/ ipc[r] # "failed" /\ ipc'[r] = "failed"
                   \/ pc[r] # "raised" /\ pc'[r] = "raised"
                   \/ /\ pc[r] = "returned" /\ pc'[r] = "collected"
                      /\ result[r] # "valid"
            /\ pairState'[r] # pairState[r] =>
                   \A q \in Runs \ {r} :
                       /\ pairState'[q] = pairState[q]
                       /\ pc'[q] = pc[q]
                       /\ ipc'[q] = ipc[q]]_vars

C14_Witness ==
    \E r, q \in Runs :
        /\ pairState[q] = "ABORTED" /\ ipc[q] = "failed" /\ callBuilds[q] = 1
        /\ pairState[r] = "COMPLETE" /\ image[r] = image[q]

\* C15: a build failure is propagated and never retried: one ensure call
\* issues at most one `docker build`, a call whose build failed has ended
\* with the error of that build at the orchestrator (the pair is ABORTED),
\* and a call ends well only with the image on the host.
C15_BuildFailurePropagated ==
    \A p \in Runs :
        /\ callBuilds[p] <= 1
        /\ ipc[p] = "building" => callBuilds[p] = 1
        /\ (ipc[p] = "failed" /\ callBuilds[p] = 1) =>
               (ensureErr[p] = "RunError" /\ pairState[p] = "ABORTED")
        /\ ipc[p] = "ready" => image[p] \in localImages

C15_Witness ==
    \E p \in Runs :
        /\ ipc[p] = "failed" /\ callBuilds[p] = 1 /\ builds[p] = 1
        /\ ensureErr[p] = "RunError" /\ pairState[p] = "ABORTED"
        /\ image[p] \notin localImages

\* The taxonomy of spec section 7 for the host side.
Taxonomy == {"BuildError", "LaunchError", "RuntimeFailure", "ResultFormatError"}

\* C16, as stated: no error of an external tool leaves _image_exists,
\* _run_container_build_command, _upload_image or _start_container as it was
\* raised; what reaches the orchestrator is an outcome of the taxonomy.
C16_NoRawErrorLeaves ==
    \A p \in Runs :
        /\ ensureErr[p] \in Taxonomy \cup {"none"}
        /\ pushRes[p] \in Taxonomy \cup {"none", "ok"}
        /\ outcome[p] \in Taxonomy \cup {"none", "ok", "KeyboardInterrupt"}

\* C16, amended: of the backend calls only a failed `docker pull` is caught,
\* inside _image_exists, which then returns False; a failure of `docker
\* images`, of `docker build`, of `docker login && docker push` or of `docker
\* run` leaves its function as the very error run_cmd raised, and no outcome
\* of the taxonomy is produced by any of the four functions.
C16_OnlyPullFailureCaught ==
    \A p \in Runs :
        /\ localRes[p] = "error" => ensureErr[p] = "RunError"
        /\ (pullRes[p] = "fail" /\ callBuilds[p] = 0) =>
               (ensureErr[p] = "none" /\ existsRes[p] = "false")
        /\ (ipc[p] = "failed" /\ callBuilds[p] = 1) => ensureErr[p] = "RunError"
        /\ pushRes[p] \in {"none", "ok", "RunError"}
        /\ (pc[p] = "raised" /\ waitEnd[p] = "RunError"
                            /\ killRes[p] \in {"ok", "fail"}) =>
               outcome[p] = "RunError"
        /\ ensureErr[p] \notin Taxonomy /\ outcome[p] \notin Taxonomy

C16_Witness ==
    \E p \in Runs :
        /\ pullRes[p] = "fail" /\ existsRes[p] = "false"
        /\ ipc[p] = "failed" /\ callBuilds[p] = 1 /\ ensureErr[p] = "RunError"

\* ============================================== properties of the command
\* C17: in every command issued the image is followed by the forwarded
\* parameters, as they were given, and then, in this order and with nothing
\* left out, by -i /input -o /output -u /custom -s skip -Xrun_mode=docker
\* --session=.
C17_FixedArgsFollowParams ==
    \A r \in Runs :
        cmd[r] # NoCommand =>
            LET a == cmd[r].args
                fwd == ParamTokens(params[r])
                n == Len(fwd)
            IN  /\ cmd[r].image = image[r]
                /\ Len(a) = n + 10
                /\ SubSeq(a, 1, n) = fwd
                /\ SubSeq(a, n + 1, n + 10) =
                       <<"-i", "/input", "-o", "/output", "-u", "/custom",
                         "-s", "skip", "-Xrun_mode=docker", "--session=">>

C17_Witness ==
    \E r \in Runs :
        /\ pc[r] = "run" /\ params[r] = 2
        /\ SubSeq(cmd[r].args, 1, 4) = <<"-i", "/data", "-i", "/input">>
        /\ cmd[r].args[Len(cmd[r].args)] = "--session="

\* =============================================== properties of the adapters
\* C18: for a task_type other than train and predict, run raises before any
\* fit, load, predict or emission: no operation is ever performed, and once
\* run has left its first statement it has raised ValueError without result.
C18_UnknownTaskRaisesFirst ==
    taskType \notin {"train", "predict"} =>
        /\ ops = <<>>
        /\ apc # "start" =>
               (apc = "raised" /\ err = "ValueError" /\ res = NoResult)

C18_Witness ==
    /\ adapter = "DecisionTree" /\ taskType = "bogus"
    /\ apc = "raised" /\ err = "ValueError" /\ ops = <<>>

\* C19: for task_type = predict nothing is fitted or saved; a result is
\* emitted only after the model was loaded, with training_duration 0.0 and
\* model_path None; without a model at config.model_path run raises the error
\* of the load, having predicted and emitted nothing.
C19_PredictNeverFits ==
    taskType = "predict" =>
        /\ \A i \in 1..Len(ops) : ops[i] \in {"load", "predict", "emit"}
        /\ apc = "emitted" =>
               /\ ops = <<"load", "predict", "emit">>
               /\ modelFile = "model"
               /\ res.training_duration = "zero"
               /\ res.model_path = "None"
        /\ (modelFile # "model" /\ apc # "start") =>
               /\ apc = "raised" /\ err = "LoadError"
               /\ ops = <<"load">> /\ res = NoResult

C19_Witness ==
    /\ adapter = "TunedRandomForest" /\ taskType = "predict"
    /\ apc = "emitted" /\ ops = <<"load", "predict", "emit">>
    /\ res.training_duration = "zero" /\ res.model_path = "None"

\* C20: best-effort persistence: for task_type = train, when the saving of
\* the fitted model raised, that error does not leave run, and the result
\* emitted holds predictions and the model_path None.
C20_PersistenceBestEffort ==
    (taskType = "train" /\ saveRes = "raised") =>
        /\ err # "SaveError"
        /\ apc = "emitted" => (res.predictions > 0 /\ res.model_path = "None")

\* C21: every emitted result with a model_path other than None was emitted
\* for task_type = train after the model file was written without an error;
\* a result emitted after a failed saving, or by the predict branch, where
\* nothing is saved, has model_path None.
C21_ModelPathOnlyAfterSave ==
    apc = "emitted" =>
        /\ res.model_path # "None" =>
               /\ taskType = "train"
               /\ saveRes = "ok"
               /\ \E i \in 1..Len(ops) : ops[i] = "dump"
        /\ (saveRes # "ok") => res.model_path = "None"

C21_Witness ==
    /\ adapter = "constantpredictor" /\ taskType = "train"
    /\ apc = "emitted" /\ saveRes = "ok" /\ res.model_path = "dir"

\* The protocol events among the operations of a run.
IsProtocolEvent(op) == op \in {"fit", "mkdtemp", "dump", "load", "predict", "emit"}
ProtocolEvents == SelectSeq(ops, IsProtocolEvent)

\* For task_type = train: the saving begins only after fit has returned,
\* predict only after the saving has ended, the emission only after predict,
\* and a run that emits has performed exactly fit, the saving, predict and
\* the emission, in that order.
TrainStepsOrdered ==
    taskType = "train" =>
        /\ \A i \in 1..Len(ops) :
               /\ ops[i] = "mkdtemp" => (i > 1 /\ ops[i - 1] = "fit")
               /\ ops[i] = "dump" => (i > 1 /\ ops[i - 1] = "mkdtemp")
               /\ ops[i] = "predict" => (i > 1 /\ ops[i - 1] = "dump")
               /\ ops[i] = "emit" => (i > 1 /\ ops[i - 1] = "predict")
        /\ apc = "emitted" =>
               ProtocolEvents = <<"fit", "mkdtemp", "dump", "predict", "emit">>

\* C22, as claimed: for task_type = train the steps occur in the order fit,
\* persist attempt, predict, emit, and the emitted training_duration is the
\* measured time of the fit.
C22_TrainOrderAndFitTime ==
    /\ TrainStepsOrdered
    /\ (taskType = "train" /\ apc = "emitted") =>
           res.training_duration = "timed"

\* C22, as the code has it: for task_type = train the steps occur in the
\* order fit, persist attempt, predict, emit; the emitted training_duration
\* is the measured time of the fit, to which TunedRandomForest adds the
\* measured times of the candidates it evaluated while tuning.
C22_TrainOrderAndDuration ==
    /\ TrainStepsOrdered
    /\ (taskType = "train" /\ apc = "emitted") =>
           res.training_duration =
               IF adapter = "TunedRandomForest" /\ tuningDurations # <<>>
               THEN "timed+tuning" ELSE "timed"

C22_Witness ==
    /\ adapter = "TunedRandomForest" /\ taskType = "train"
    /\ apc = "emitted" /\ Len(tuningDurations) = Len(maxFeaturesValues)
    /\ ProtocolEvents = <<"fit", "mkdtemp", "dump", "predict", "emit">>
    /\ res.training_duration = "timed+tuning"

\* C23: every emitted result holds probabilities exactly when the task is a
\* classification; a regression emits probabilities None, for task_type
\* train and for task_type predict.
C23_ProbabilitiesIffClassification ==
    apc = "emitted" =>
        /\ (res.probabilities = "present") <=> classification
        /\ ~classification => res.probabilities = "None"
        /\ taskType \in {"train", "predict"}

C23_Witness ==
    /\ adapter = "RandomForest" /\ taskType = "predict" /\ ~classification
    /\ apc = "emitted" /\ res.probabilities = "None" /\ res.predictions > 0

\* ============================== properties of TunedRandomForest's tuning
\* The values picked have no duplicates, hold max(1, floor(sqrt(p))) and lie
\* in 1..p.
ValuesWellFormed ==
    apc = "picked" =>
        /\ \A i, j \in 1..Len(maxFeaturesValues) :
               maxFeaturesValues[i] = maxFeaturesValues[j] => i = j
        /\ \E i \in 1..Len(maxFeaturesValues) :
               maxFeaturesValues[i] = default_value(nFeatures)
        /\ \A i \in 1..Len(maxFeaturesValues) :
               maxFeaturesValues[i] \in 1..nFeatures

\* C24: for every number of features p >= 1, max_features_values has at
\* most 10 entries, has no duplicates, contains max(1, floor(sqrt(p))), and
\* every entry lies in 1..p.
C24_AtMostTenValues ==
    /\ ValuesWellFormed
    /\ apc = "picked" => Len(maxFeaturesValues) <= 10

\* Each candidate evaluated has one entry in tuning_durations, in the order
\* of max_features_values.
TuningDurationsOnce ==
    /\ Len(tuningDurations) <= Len(maxFeaturesValues)
    /\ tuningDurations = SubSeq(maxFeaturesValues, 1, Len(tuningDurations))

\* No candidate produced a score: the scoring of each one evaluated raised
\* or timed out, or none was evaluated.
NoCandidateScored ==
    \A i \in 1..Len(maxFeatureScores) : maxFeatureScores[i][1] = NaN

\* C26: in TunedRandomForest with task_type = train, each evaluated
\* candidate has at most one entry in tuning_durations, and when no
\* candidate produced a score the final model is fitted with
\* max_features = 'auto'.
C26_NoScoreMeansAuto ==
    (adapter = "TunedRandomForest" /\ taskType = "train") =>
        /\ TuningDurationsOnce
        /\ (bestValue # <<>> /\ NoCandidateScored) => bestValue = <<Auto>>

\* The protocol events of a run whose fit and predict raise nothing, as the
\* contract has them for every adapter: by the task type, the outcome of the
\* saving (`made`: the directory was created) and what lies at
\* config.model_path.
ExpectedEvents(t, made, file) ==
    CASE t = "train" /\ made -> <<"fit", "mkdtemp", "dump", "predict", "emit">>
      [] t = "train" /\ ~made -> <<"fit", "mkdtemp">>
      [] t = "predict" /\ file = "model" -> <<"load", "predict", "emit">>
      [] t = "predict" /\ file # "model" -> <<"load">>
      [] OTHER -> <<>>

\* C27: the five adapters are equivalent as task state machines: a run that
\* has ended, and whose fit and predict raised nothing, has performed the
\* protocol events that its task type, the outcome of the saving and the
\* outcome of the load determine, whatever the adapter; model_path is
\* non-null exactly after a train whose saving succeeded, training_duration
\* is 0.0 on predict, and an unknown task_type fails with ValueError.
C27_AdaptersEquivalent ==
    (apc \in {"emitted", "raised"} /\ err \notin {"FitError", "PredictError"}) =>
        /\ ProtocolEvents = ExpectedEvents(taskType, err # "SaveError", modelFile)
        /\ apc = "emitted" <=>
               /\ ProtocolEvents # <<>>
               /\ ProtocolEvents[Len(ProtocolEvents)] = "emit"
        /\ apc = "emitted" =>
               /\ (res.model_path # "None") <=>
                      (taskType = "train" /\ saveRes = "ok")
               /\ taskType = "predict" => res.training_duration = "zero"
        /\ taskType \notin {"train", "predict"} => err = "ValueError"

\* ===================================================== the build script
\* C25: under every interleaving of the pairs, the Dockerfile that a pair's
\* `docker build` reads is the one the same pair generated for itself: it
\* was written before the build was spawned and no other pair has written
\* the file since.
C25_BuildReadsOwnScript ==
    \A p \in Runs :
        callBuilds[p] > 0 => builtFrom[p] = GenerateScript(kind[p])

====
